---- MODULE Spec2Model ----
(***************************************************************************)
(* Verification model of the MEIU22 collection scripts and of the          *)
(* midterm package's post objects.                                         *)
(*                                                                         *)
(*   Spec       the three CrowdTangle / Pushshift collection loops         *)
(*              (crowdtangle_search, pushshift_search,                     *)
(*               crowdtangle_get_candidate_list_posts)                     *)
(*   SpecQuery  fb_ads_collect.build_query_strings                         *)
(*   SpecArchive  download_archived_threads_4chan, run again and again     *)
(*   SpecDict   midterm.utils.get_dict_val and PostBase.get_value          *)
(*   SpecData   the accessors of the platform classes of midterm.data      *)
(*   SpecKey    fb_ads_collect: the daily exchange of the access key       *)
(***************************************************************************)
EXTENDS Integers, Sequences, FiniteSets, TLC

(***************************************************************************)
(* Bounds of the model.                                                    *)
(***************************************************************************)
\* number of matching posts the platform holds around the requested day
NumPosts == 4
\* length of a day in seconds (86400 in reality)
SecondsPerDay == 3
\* the `count` of one request (10_000, 250 and 100 in the three scripts)
NUMBER_OF_POSTS_TO_PULL == 2
\* keywords in a keywords file
MaxKeywords == 3
\* the largest max_len build_query_strings is called with (90 in __main__)
MaxLen == 3
\* the last day of the model's calendar (days 0 .. MaxDay)
MaxDay == 1
\* the last minute of a day (1439 in reality)
MaxMinute == 1
\* thread ids 1 .. MaxThread
MaxThread == 2
\* nesting depth of the dictionaries get_dict_val is tried on
MaxNest == 3
\* length of the key lists get_dict_val is tried on
MaxKeys == 3
\* how deep retweeted_status / quoted_status objects are embedded in a tweet
MaxEmbed == 2
\* number of access tokens Facebook may issue
MaxToken == 3

(***************************************************************************)
(* Program constants.                                                      *)
(***************************************************************************)
max_retries == 10
CT_MAX_QUERIES == 500
PS_MAX_QUERIES == 20000
CAND_MAX_QUERIES == 50000
WAIT_BTWN_ERROR_BASE == 2

VARIABLES
    \* ---- collection loops ----
    script,         \* the script that is running, or "none"
    ran,            \* the scripts started so far; the daily schedule starts the
                    \* candidate list script, crowdtangle_search and
                    \* pushshift_search one after the other
    pc,             \* "idle", "loop" (inside `while`), "done" (after it)
    posts_db,       \* the platform: post id -> datetime (in seconds) of the post
    start_dt,       \* the requested day (a date)
    start,          \* start of the query window, a date string
    end,            \* end of the query window, a date string
    utc_start,      \* pushshift: start of the window, epoch seconds
    utc_end,        \* pushshift: end of the window, epoch seconds
    first_call,     \* candidate list: no successful first call yet
    more_data,      \* candidate list: the last response had a nextPage
    next_page_url,  \* candidate list: the page the nextPage link leads to
    retry_count,
    query_count,
    f,              \* the output file of each script: the posts written, in order
    wait_time,      \* the retry sleep this round of the loop ended with, or NoWait
    failed,         \* some request of this run raised an exception
    content_type,   \* pushshift_search: args.content_type, "None" when -t is not given
    \* ---- fb_ads_collect.build_query_strings ----
    bq_pc,          \* "call", "loop" (inside `while`), "done" (returned)
    keywords_file,  \* the lines of the keywords file, each a string of characters
    max_len,
    keywords,
    i,
    sum_count,
    lists,          \* the list objects the function has created, by identity
    temp,           \* identity of the list `temp` is bound to
    list_key,       \* the identities of the lists appended to `list_key`
    query_list,     \* the value returned
    \* ---- download_archived_threads_4chan ----
    today,              \* the day the clock shows
    minute_of_day,      \* the minute of the day the clock shows
    archive,            \* the ids archive.json lists at the moment
    archive_list_files, \* archive_list/<day>/<minute>.json.gz: [day, minute, list]
    archive_thread_file,\* archive_threads/<day>__4chan_archived_threads.json.gz
    earlier_list,       \* the archive list the last run fetched
    last_run,           \* what the last run saw and did
    \* ---- midterm.data post objects ----
    cls,            \* the class of the object constructed
    post_object,    \* self.post_object, a JSON value
    call,           \* the method called last and its arguments, NoCall before
    called_on,      \* self.post_object as it was when the method was called
    ret,            \* how the call ended: a value returned or an exception
    \* ---- fb_ads_collect.py: the access key ----
    key_pc,                 \* where __main__ is
    access_key_file,        \* content of the access key file
    access_token,           \* retrieve_new_access_key: the token read
    new_access_token,       \* retrieve_new_access_key: the token issued
    fb_ads_access_token,    \* __main__: what retrieve_new_access_key returned
    api_access_token,       \* make_requests: the token the requests are made with
    tokens_used             \* the tokens requests were made with, over all runs

collVars == <<script, ran, pc, posts_db, start_dt, start, end, utc_start, utc_end,
              first_call, more_data, next_page_url, retry_count, query_count,
              f, wait_time, failed, content_type>>

bqVars == <<bq_pc, keywords_file, max_len, keywords, i, sum_count, lists, temp,
            list_key, query_list>>

archVars == <<today, minute_of_day, archive, archive_list_files,
              archive_thread_file, earlier_list, last_run>>

dataVars == <<cls, post_object, call, called_on, ret>>

keyVars == <<key_pc, access_key_file, access_token, new_access_token,
             fb_ads_access_token, api_access_token, tokens_used>>

vars == <<collVars, bqVars, archVars, dataVars, keyVars>>

notCollVars == <<bqVars, archVars, dataVars, keyVars>>

notBqVars == <<collVars, archVars, dataVars, keyVars>>

notArchVars == <<collVars, bqVars, dataVars, keyVars>>

notDataVars == <<collVars, bqVars, archVars, keyVars>>

(***************************************************************************)
(* Dates.  A datetime is a number of seconds; a date string                *)
(* ("%Y-%m-%d %H:%M:%S" or "%Y-%m-%dT%H:%M:%S") is its day and its second  *)
(* of the day.                                                             *)
(***************************************************************************)
strptime(date_string) == date_string.day * SecondsPerDay + date_string.sec

strftime(dt) == [day |-> dt \div SecondsPerDay, sec |-> dt % SecondsPerDay]

\* datetime.datetime.combine(date, datetime.time(0, 0, 0))
combine(date) == date * SecondsPerDay

\* date.strftime("%Y-%m-%dT%H:%M:%S") of a date object: midnight
date_strftime(date) == [day |-> date, sec |-> 0]

\* the datetimes a post of the model may carry: from the last second of the
\* day before the requested day to the first second of the day after it
Datetimes == (SecondsPerDay - 1) .. (2 * SecondsPerDay)

PostIds == 1 .. NumPosts

Scripts == {"crowdtangle_search", "pushshift_search", "candidate_list_posts"}

\* a wait time in seconds is a fraction <<numerator, denominator>>
NoWait == <<0, 1>>

RatEq(a, b) == a[1] * b[2] = b[1] * a[2]

Range(s) == {s[x] : x \in DOMAIN s}

RECURSIVE Pow(_, _)
Pow(b, n) == IF n = 0 THEN 1 ELSE b * Pow(b, n - 1)

(***************************************************************************)
(* The platform APIs, as the scripts assume them.                          *)
(***************************************************************************)
\* the posts dated inside the closed window [lo, hi]
InWindow(lo, hi) == {p \in PostIds : lo <= posts_db[p] /\ posts_db[p] <= hi}

Min(a, b) == IF a < b THEN a ELSE b

\* a set of posts listed most recent first; posts of one date in id order
RECURSIVE SortDesc(_)
SortDesc(S) ==
    IF S = {} THEN <<>>
    ELSE LET m == CHOOSE p \in S : \A q \in S :
                      \/ posts_db[p] > posts_db[q]
                      \/ (posts_db[p] = posts_db[q] /\ p <= q)
         IN  <<m>> \o SortDesc(S \ {m})

\* a set of posts listed oldest first; posts of one date in id order
RECURSIVE SortAsc(_)
SortAsc(S) ==
    IF S = {} THEN <<>>
    ELSE LET m == CHOOSE p \in S : \A q \in S :
                      \/ posts_db[p] < posts_db[q]
                      \/ (posts_db[p] = posts_db[q] /\ p <= q)
         IN  <<m>> \o SortAsc(S \ {m})

ct_post(p) == [id |-> p, date |-> strftime(posts_db[p])]

ps_post(p) == [id |-> p, created_utc |-> posts_db[p]]


\* CrowdTangle posts/search with sortBy=date: the pages it may answer with.
\* A page holds the (at most count) most recent posts of the window, most
\* recent first; which of several posts of the oldest date make it into the
\* page is the server's choice.
ct_get_search_posts(count, start_time, end_time) ==
    LET W == InWindow(strptime(start_time), strptime(end_time))
        n == Min(count, Cardinality(W))
        pages == {T \in SUBSET W :
                     /\ Cardinality(T) = n
                     /\ \A p \in T, q \in W \ T : posts_db[p] >= posts_db[q]}
    IN  {[x \in 1 .. n |-> ct_post(SortDesc(T)[x])] : T \in pages}

\* Pushshift search: the (at most count) oldest posts of the window, oldest first
\* of the endpoint; both endpoints serve the corpus posts_db
ps_get_search_posts(type, count, start_date, end_date) ==
    LET URL_BASE == IF type = "comment" THEN "URL_COMMENTS" ELSE "URL_SUBMISSIONS"
        W == InWindow(start_date, end_date)
        n == Min(count, Cardinality(W))
        pages == {T \in SUBSET W :
                     /\ Cardinality(T) = n
                     /\ \A p \in T, q \in W \ T : posts_db[p] <= posts_db[q]}
    IN  {[x \in 1 .. n |->
             [id |-> ps_post(SortAsc(T)[x]).id,
              created_utc |-> ps_post(SortAsc(T)[x]).created_utc,
              url |-> URL_BASE]] : T \in pages}

\* CrowdTangle posts of a list: the server's listing of the window, most recent
\* first, cut into pages; page k carries a nextPage link when posts remain
\* after it
ct_get_posts(count, start_time, end_time, page) ==
    LET l  == SortDesc(InWindow(strptime(start_time), strptime(end_time)))
        lo == page * count
        n  == IF Len(l) > lo THEN Min(count, Len(l) - lo) ELSE 0
    IN  [status |-> 200,
         posts |-> [x \in 1 .. n |-> ct_post(l[lo + x])],
         hasNext |-> Len(l) > lo + n,
         nextPage |-> page + 1]

(***************************************************************************)
(* Retry sleeps.                                                           *)
(***************************************************************************)
\* a retry sleep that backs off with the retry count
CtWaitTime_Backoff(rc) == <<Pow(WAIT_BTWN_ERROR_BASE, rc), 1>>

\* crowdtangle_search: time.sleep(10)
CtWaitTime(rc) == <<10, 1>>

\* pushshift_search: time.sleep(0.5)
PsWaitTime(rc) == <<1, 2>>

\* candidate list: WAIT_BTWN_ERROR_BASE**retry_count, divided by 60 above 60
CandWaitTime(rc) ==
    LET w == Pow(WAIT_BTWN_ERROR_BASE, rc)
    IN  IF w > 60 THEN <<w, 60>> ELSE <<w, 1>>

NoRun == /\ start = date_strftime(0) /\ end = date_strftime(0)
         /\ utc_start = 0 /\ utc_end = 0
         /\ first_call = FALSE /\ more_data = FALSE /\ next_page_url = 0
         /\ retry_count = 0 /\ query_count = 0
         /\ wait_time = NoWait /\ failed = FALSE

\* no collection script runs
IdleColl ==
    /\ script = "none"
    /\ ran = {}
    /\ pc = "idle"
    /\ posts_db = [p \in PostIds |-> SecondsPerDay]
    /\ start_dt = 1
    /\ NoRun
    /\ f = [s \in Scripts |-> <<>>]
    /\ content_type = "None"

InitColl ==
    /\ script = "none"
    /\ ran = {}
    /\ pc = "idle"
    /\ posts_db \in {d \in [PostIds -> Datetimes] :
                        \A p, q \in PostIds : p < q => d[p] >= d[q]}
    /\ start_dt = 1
    /\ NoRun
    /\ f = [s \in Scripts |-> <<>>]
    /\ content_type = "None"

(***************************************************************************)
(* The retry handling the three loops share: count the retry, give up at   *)
(* max_retries, otherwise sleep and go round the loop again.               *)
(***************************************************************************)
HandleRetry(wait) ==
    /\ retry_count' = retry_count + 1
    /\ IF (max_retries - retry_count') <= 0
          THEN /\ pc' = "done"
               /\ wait_time' = NoWait
          ELSE /\ pc' = "loop"
               /\ wait_time' = wait

(***************************************************************************)
(* crowdtangle_search.py                                                   *)
(***************************************************************************)
\* a window update that keeps the oldest date of the page in the window
CtNextEnd_NoStep(oldest_date_str) == strptime(oldest_date_str)

\* the new end of the window: the oldest date of the page minus one second
CtNextEnd(oldest_date_str) == strptime(oldest_date_str) - 1

StartCrowdtangleSearch ==
    /\ pc # "loop"
    /\ ran = {"candidate_list_posts"}
    /\ script' = "crowdtangle_search"
    /\ ran' = ran \cup {"crowdtangle_search"}
    /\ pc' = "loop"
    /\ start' = date_strftime(start_dt)
    /\ end' = date_strftime(start_dt + 1)
    /\ f' = [f EXCEPT !["crowdtangle_search"] = <<>>]
    /\ query_count' = 0
    /\ retry_count' = 0
    /\ wait_time' = NoWait
    /\ failed' = FALSE
    /\ utc_start' = 0 /\ utc_end' = 0
    /\ first_call' = FALSE /\ more_data' = FALSE /\ next_page_url' = 0
    /\ UNCHANGED <<posts_db, start_dt>>
    /\ UNCHANGED content_type
    /\ UNCHANGED notCollVars

\* the request raises (rate limit, network, a response without result.posts)
CtRequestFails ==
    /\ pc = "loop"
    /\ script = "crowdtangle_search"
    /\ failed' = TRUE
    /\ HandleRetry(CtWaitTime(retry_count + 1))
    /\ UNCHANGED <<script, ran, posts_db, start_dt, start, end, utc_start, utc_end,
                   first_call, more_data, next_page_url, query_count, f>>
    /\ UNCHANGED content_type
    /\ UNCHANGED notCollVars

\* the request answers with no post
CtZeroPosts ==
    /\ pc = "loop"
    /\ script = "crowdtangle_search"
    /\ \E posts \in ct_get_search_posts(NUMBER_OF_POSTS_TO_PULL, start, end) :
          Len(posts) = 0
    /\ HandleRetry(CtWaitTime(retry_count + 1))
    /\ UNCHANGED <<script, ran, posts_db, start_dt, start, end, utc_start, utc_end,
                   first_call, more_data, next_page_url, query_count, f, failed>>
    /\ UNCHANGED content_type
    /\ UNCHANGED notCollVars

\* the request answers with a page of posts
CtPage ==
    /\ pc = "loop"
    /\ script = "crowdtangle_search"
    /\ \E posts \in ct_get_search_posts(NUMBER_OF_POSTS_TO_PULL, start, end) :
          /\ Len(posts) # 0
          /\ retry_count' = 0
          /\ wait_time' = NoWait
          /\ f' = [f EXCEPT !["crowdtangle_search"] = @ \o posts]
          /\ LET oldest_date_str == posts[Len(posts)].date
                 oldest_date_dt  == CtNextEnd(oldest_date_str)
             IN  IF oldest_date_dt <= combine(start_dt)
                    THEN /\ pc' = "done"
                         /\ UNCHANGED <<query_count, end>>
                    ELSE /\ query_count' = query_count + 1
                         /\ IF query_count' > CT_MAX_QUERIES
                               THEN /\ pc' = "done"
                                    /\ end' = end
                               ELSE /\ pc' = "loop"
                                    /\ end' = strftime(oldest_date_dt)
    /\ UNCHANGED <<script, ran, posts_db, start_dt, start, utc_start, utc_end,
                   first_call, more_data, next_page_url, failed>>
    /\ UNCHANGED content_type
    /\ UNCHANGED notCollVars

(***************************************************************************)
(* pushshift_search.py                                                     *)
(***************************************************************************)
\* the new start of the window: created_utc of the last post plus one second
PsNextStart(utc_last_date) == utc_last_date + 1

\* __main__ up to the loop: -t is read, anything but "submission" and
\* "comment" raises before the output file is opened
StartPushshiftSearch ==
    /\ pc # "loop"
    /\ ran = {"candidate_list_posts", "crowdtangle_search"}
    /\ script' = "pushshift_search"
    /\ ran' = ran \cup {"pushshift_search"}
    /\ \E arg \in {"None", "submission", "comment"} :
          /\ content_type' = arg
          /\ IF content_type' \notin {"submission", "comment"}
                THEN /\ pc' = "raised"
                     /\ utc_start' = 0
                     /\ utc_end' = 0
                     /\ f' = f
                ELSE /\ pc' = "loop"
                     /\ utc_start' = combine(start_dt)
                     /\ utc_end' = combine(start_dt + 1)
                     /\ f' = [f EXCEPT !["pushshift_search"] = <<>>]
    /\ query_count' = 0
    /\ retry_count' = 0
    /\ wait_time' = NoWait
    /\ failed' = FALSE
    /\ start' = date_strftime(0) /\ end' = date_strftime(0)
    /\ first_call' = FALSE /\ more_data' = FALSE /\ next_page_url' = 0
    /\ UNCHANGED <<posts_db, start_dt>>
    /\ UNCHANGED notCollVars

PsRequestFails ==
    /\ pc = "loop"
    /\ script = "pushshift_search"
    /\ failed' = TRUE
    /\ HandleRetry(PsWaitTime(retry_count + 1))
    /\ UNCHANGED <<script, ran, posts_db, start_dt, start, end, utc_start, utc_end,
                   first_call, more_data, next_page_url, query_count, f>>
    /\ UNCHANGED content_type
    /\ UNCHANGED notCollVars

PsZeroPosts ==
    /\ pc = "loop"
    /\ script = "pushshift_search"
    /\ \E posts \in ps_get_search_posts(content_type, NUMBER_OF_POSTS_TO_PULL, utc_start, utc_end) :
          Len(posts) = 0
    /\ HandleRetry(PsWaitTime(retry_count + 1))
    /\ UNCHANGED <<script, ran, posts_db, start_dt, start, end, utc_start, utc_end,
                   first_call, more_data, next_page_url, query_count, f, failed>>
    /\ UNCHANGED content_type
    /\ UNCHANGED notCollVars

PsPage ==
    /\ pc = "loop"
    /\ script = "pushshift_search"
    /\ \E posts \in ps_get_search_posts(content_type, NUMBER_OF_POSTS_TO_PULL, utc_start, utc_end) :
          /\ Len(posts) # 0
          /\ retry_count' = 0
          /\ wait_time' = NoWait
          /\ f' = [f EXCEPT !["pushshift_search"] = @ \o posts]
          /\ LET utc_last_date == posts[Len(posts)].created_utc
             IN  utc_start' = PsNextStart(utc_last_date)
          /\ IF utc_start' >= utc_end
                THEN /\ pc' = "done"
                     /\ query_count' = query_count
                ELSE /\ query_count' = query_count + 1
                     /\ pc' = IF query_count' >= PS_MAX_QUERIES THEN "done" ELSE "loop"
    /\ UNCHANGED <<script, ran, posts_db, start_dt, start, end, utc_end,
                   first_call, more_data, next_page_url, failed>>
    /\ UNCHANGED content_type
    /\ UNCHANGED notCollVars

(***************************************************************************)
(* crowdtangle_get_candidate_list_posts.py                                 *)
(***************************************************************************)
\* the response of this round of the loop: the first call, or the nextPage link
CandResponse ==
    ct_get_posts(NUMBER_OF_POSTS_TO_PULL, start, end,
                 IF first_call THEN 0 ELSE next_page_url)

StartCandidateListPosts ==
    /\ pc # "loop"
    /\ ran = {}
    /\ script' = "candidate_list_posts"
    /\ ran' = ran \cup {"candidate_list_posts"}
    /\ pc' = "loop"
    /\ start' = date_strftime(start_dt)
    /\ end' = date_strftime(start_dt + 1)
    /\ f' = [f EXCEPT !["candidate_list_posts"] = <<>>]
    /\ first_call' = TRUE
    /\ more_data' = FALSE
    /\ next_page_url' = 0
    /\ query_count' = 0
    /\ retry_count' = 0
    /\ wait_time' = NoWait
    /\ failed' = FALSE
    /\ utc_start' = 0 /\ utc_end' = 0
    /\ UNCHANGED <<posts_db, start_dt>>
    /\ UNCHANGED content_type
    /\ UNCHANGED notCollVars

\* the request raises: first_call, more_data and next_page_url stay as they were
CandRequestFails ==
    /\ pc = "loop"
    /\ script = "candidate_list_posts"
    /\ failed' = TRUE
    /\ HandleRetry(CandWaitTime(retry_count + 1))
    /\ UNCHANGED <<script, ran, posts_db, start_dt, start, end, utc_start, utc_end,
                   first_call, more_data, next_page_url, query_count, f>>
    /\ UNCHANGED content_type
    /\ UNCHANGED notCollVars

\* the request answers with no post: `continue` leaves the loop unless it is
\* still the first call or a nextPage link came with the empty page
CandZeroPosts ==
    /\ pc = "loop"
    /\ script = "candidate_list_posts"
    /\ LET results == CandResponse
       IN  /\ Len(results.posts) = 0
           /\ first_call' = first_call
           /\ more_data' = results.hasNext
           /\ next_page_url' = IF results.hasNext THEN results.nextPage ELSE 0
           /\ retry_count' = retry_count + 1
           /\ IF (max_retries - retry_count') <= 0
                 THEN /\ pc' = "done"
                      /\ wait_time' = NoWait
                 ELSE /\ wait_time' = CandWaitTime(retry_count')
                      /\ pc' = IF first_call' \/ more_data' THEN "loop" ELSE "done"
    /\ UNCHANGED <<script, ran, posts_db, start_dt, start, end, utc_start, utc_end,
                   query_count, f, failed>>
    /\ UNCHANGED content_type
    /\ UNCHANGED notCollVars

CandPage ==
    /\ pc = "loop"
    /\ script = "candidate_list_posts"
    /\ LET results == CandResponse
       IN  /\ Len(results.posts) # 0
           /\ first_call' = IF first_call /\ results.status = 200 THEN FALSE
                                                                 ELSE first_call
           /\ more_data' = results.hasNext
           /\ next_page_url' = IF results.hasNext THEN results.nextPage ELSE 0
           /\ retry_count' = 0
           /\ wait_time' = NoWait
           /\ f' = [f EXCEPT !["candidate_list_posts"] = @ \o results.posts]
           /\ query_count' = query_count + 1
           /\ pc' = IF query_count' > CAND_MAX_QUERIES THEN "done"
                    ELSE IF first_call' \/ more_data' THEN "loop" ELSE "done"
    /\ UNCHANGED <<script, ran, posts_db, start_dt, start, end, utc_start, utc_end,
                   failed>>
    /\ UNCHANGED content_type
    /\ UNCHANGED notCollVars

(***************************************************************************)
(* download_archived_threads_4chan.py.  One run of the script is one step; *)
(* between runs the clock advances and 4chan archives and purges threads.  *)
(***************************************************************************)
ThreadIds == 1 .. MaxThread

NoRunYet == [ran |-> FALSE]

\* the files of archive_list/<day>/
FilesOfDay(day) == {file \in archive_list_files : file.day = day}

\* sorted(all_files, key=minute)[-1]
LastFile(all_files) ==
    CHOOSE file \in all_files : \A g \in all_files : g.minute <= file.minute

\* the ids of the fetched list that the list compared with does not hold
NewArchivedIds(set_new, set_last) == set_new \ (set_new \cap set_last)

\* a set of ids in the order the loop visits them
RECURSIVE IdList(_)
IdList(S) ==
    IF S = {} THEN <<>>
    ELSE LET m == CHOOSE t \in S : \A u \in S : t <= u
         IN  <<m>> \o IdList(S \ {m})

\* fetch_thread(thread_id): the JSON of the thread
fetch_thread(thread_id) == [no |-> thread_id]

SelectSeq2(seq, S) == SelectSeq(seq, LAMBDA t : t \in S)

IdleArch ==
    /\ today = 0
    /\ minute_of_day = 0
    /\ archive = {}
    /\ archive_list_files = {}
    /\ archive_thread_file = [d \in 0 .. MaxDay |-> <<>>]
    /\ earlier_list = {}
    /\ last_run = NoRunYet

InitArch ==
    /\ today = 0
    /\ minute_of_day = 0
    /\ archive \in SUBSET ThreadIds
    /\ archive_list_files = {}
    /\ archive_thread_file = [d \in 0 .. MaxDay |-> <<>>]
    /\ earlier_list = {}
    /\ last_run = NoRunYet

\* the clock moves on within the day
MinutePasses ==
    /\ minute_of_day < MaxMinute
    /\ minute_of_day' = minute_of_day + 1
    /\ UNCHANGED <<today, archive, archive_list_files, archive_thread_file,
                   earlier_list, last_run>>
    /\ UNCHANGED notArchVars

\* midnight: the next day begins
DayPasses ==
    /\ today < MaxDay
    /\ today' = today + 1
    /\ minute_of_day' = 0
    /\ UNCHANGED <<archive, archive_list_files, archive_thread_file,
                   earlier_list, last_run>>
    /\ UNCHANGED notArchVars

\* 4chan archives a thread
ThreadArchived ==
    /\ \E t \in ThreadIds \ archive : archive' = archive \cup {t}
    /\ UNCHANGED <<today, minute_of_day, archive_list_files, archive_thread_file,
                   earlier_list, last_run>>
    /\ UNCHANGED notArchVars

\* 4chan purges a thread from the archive
ThreadPurged ==
    /\ \E t \in archive : archive' = archive \ {t}
    /\ UNCHANGED <<today, minute_of_day, archive_list_files, archive_thread_file,
                   earlier_list, last_run>>
    /\ UNCHANGED notArchVars

\* one run of the script, lines 65-116; `ok` are the threads whose request
\* succeeds.  The schedule starts the script at most once a minute.
RunArchivedThreads ==
    /\ \A file \in FilesOfDay(today) : file.minute # minute_of_day
    /\ \E ok \in SUBSET ThreadIds :
      LET all_files    == FilesOfDay(today)
          archive_list == archive
          written      == [day |-> today, minute |-> minute_of_day,
                           list |-> archive_list]
          files_after  == {file \in archive_list_files :
                              ~(file.day = today /\ file.minute = minute_of_day)}
                          \cup {written}
          compared     == Cardinality(all_files) > 0
          last_file    == LastFile(all_files)
          \* the file is read after this run's list was written
          archive_list_last ==
              (CHOOSE file \in files_after :
                  file.day = today /\ file.minute = last_file.minute).list
          new_archived_ids ==
              IF compared THEN NewArchivedIds(archive_list, archive_list_last)
                          ELSE {}
          new_archived_threads ==
              [k \in DOMAIN SelectSeq2(IdList(new_archived_ids), ok) |->
                  fetch_thread(SelectSeq2(IdList(new_archived_ids), ok)[k])]
      IN  /\ archive_list_files' = files_after
          /\ archive_thread_file' =
                IF compared
                   THEN [archive_thread_file EXCEPT ![today] = @ \o new_archived_threads]
                   ELSE archive_thread_file
          /\ earlier_list' = archive_list
          /\ last_run' = [ran |-> TRUE,
                          follows |-> last_run.ran,
                          fetched |-> archive_list,
                          earlier |-> earlier_list,
                          requested |-> new_archived_ids,
                          succeeded |-> new_archived_ids \cap ok,
                          appended |-> IF compared THEN new_archived_threads ELSE <<>>]
          /\ UNCHANGED <<today, minute_of_day, archive>>
          /\ UNCHANGED notArchVars

NextArch ==
    \/ MinutePasses
    \/ DayPasses
    \/ ThreadArchived
    \/ ThreadPurged
    \/ RunArchivedThreads

(***************************************************************************)
(* fb_ads_collect.py: build_query_strings.  Strings are sequences of       *)
(* characters; Python lists are objects of `lists`, named by their index,  *)
(* so that two names bound to one list see each other's appends.           *)
(***************************************************************************)
Chars == {"a", "b"}

Whitespace == {" ", "\n"}

\* the strings of at most n characters over Chars, the empty one left out
Words(n) == UNION {[1 .. k -> Chars] : k \in 1 .. n}

\* str.rstrip(): without its trailing whitespace
RECURSIVE rstrip(_)
rstrip(str) ==
    IF str # <<>> /\ str[Len(str)] \in Whitespace
       THEN rstrip(SubSeq(str, 1, Len(str) - 1))
       ELSE str

\* sep.join(strs)
RECURSIVE join(_, _)
join(sep, strs) ==
    IF strs = <<>> THEN <<>>
    ELSE IF Len(strs) = 1 THEN strs[1]
    ELSE strs[1] \o sep \o join(sep, Tail(strs))

\* str.split(sep) for a one-character sep: "" splits into [""]
RECURSIVE split(_, _)
split(str, sep) ==
    IF \A k \in DOMAIN str : str[k] # sep THEN <<str>>
    ELSE LET k == CHOOSE k \in DOMAIN str :
                     str[k] = sep /\ \A j \in 1 .. (k - 1) : str[j] # sep
         IN  <<SubSeq(str, 1, k - 1)>> \o split(SubSeq(str, k + 1, Len(str)), sep)

\* the keywords files of the model: at most MaxKeywords lines, one keyword of
\* at most max_len characters per line, the last line with or without "\n"
KeywordFiles(ml) ==
    {[k \in DOMAIN ws |-> IF k = Len(ws) /\ ~nl THEN ws[k] ELSE ws[k] \o <<"\n">>] :
        ws \in UNION {[1 .. n -> Words(ml)] : n \in 0 .. MaxKeywords},
        nl \in BOOLEAN}

IdleBq ==
    /\ bq_pc = "idle"
    /\ keywords_file = <<>>
    /\ max_len = 0
    /\ keywords = <<>>
    /\ i = 0
    /\ sum_count = 0
    /\ lists = <<>>
    /\ temp = 0
    /\ list_key = <<>>
    /\ query_list = <<>>

InitBq ==
    /\ bq_pc = "call"
    /\ max_len \in 2 .. MaxLen
    /\ keywords_file \in KeywordFiles(max_len)
    /\ keywords = <<>>
    /\ i = 0
    /\ sum_count = 0
    /\ lists = <<>>
    /\ temp = 0
    /\ list_key = <<>>
    /\ query_list = <<>>

\* len(x) of the keyword at Python index k
count_list(k) == Len(keywords[k + 1])

total == Len(keywords)

\* lines 56-67: read the file and set the loop up; temp = [] creates list 1
BqReadKeywords ==
    /\ bq_pc = "call"
    /\ keywords' = [k \in DOMAIN keywords_file |-> rstrip(keywords_file[k])]
    /\ i' = 0
    /\ sum_count' = 0
    /\ lists' = <<<<>>>>
    /\ temp' = 1
    /\ list_key' = <<>>
    /\ bq_pc' = "loop"
    /\ UNCHANGED <<keywords_file, max_len, query_list>>
    /\ UNCHANGED notBqVars

\* lines 70-75 and 85-86: the keyword fits into the group
BqAppendKeyword ==
    /\ bq_pc = "loop"
    /\ i < total
    /\ sum_count + count_list(i) <= max_len
    /\ sum_count' = sum_count + count_list(i)
    /\ lists' = [lists EXCEPT ![temp] = Append(@, keywords[i + 1])]
    /\ i' = i + 1
    /\ temp' = temp
    /\ list_key' = IF i' = total - 1 THEN Append(list_key, temp') ELSE list_key
    /\ UNCHANGED <<bq_pc, keywords_file, max_len, keywords, query_list>>
    /\ UNCHANGED notBqVars

\* lines 70, 78-82 and 85-86: the keyword does not fit, the group is closed
BqCloseGroup ==
    /\ bq_pc = "loop"
    /\ i < total
    /\ sum_count + count_list(i) > max_len
    /\ lists' = Append(lists, <<>>)
    /\ temp' = Len(lists')
    /\ sum_count' = 0
    /\ i' = i
    /\ list_key' = IF i' = total - 1
                      THEN Append(Append(list_key, temp), temp')
                      ELSE Append(list_key, temp)
    /\ UNCHANGED <<bq_pc, keywords_file, max_len, keywords, query_list>>
    /\ UNCHANGED notBqVars

\* line 88: the loop is over, the groups are joined
BqReturn ==
    /\ bq_pc = "loop"
    /\ ~(i < total)
    /\ query_list' = [k \in DOMAIN list_key |-> join(<<",">>, lists[list_key[k]])]
    /\ bq_pc' = "done"
    /\ UNCHANGED <<keywords_file, max_len, keywords, i, sum_count, lists, temp,
                   list_key>>
    /\ UNCHANGED notBqVars

NextBq ==
    \/ BqReadKeywords
    \/ BqAppendKeyword
    \/ BqCloseGroup
    \/ BqReturn

(***************************************************************************)
(* fb_ads_collect.py: retrieve_new_access_key and its use in __main__.     *)
(* The script runs once a day; the access key file stays between runs.     *)
(***************************************************************************)
\* the tokens Facebook issues, as strings
Tokens == {<<"t", ToString(k)>> : k \in 1 .. MaxToken}

\* a name that is not bound (yet)
Unbound == <<"unbound">>

\* str.strip(): without leading and trailing whitespace
strip(str) ==
    LET r == rstrip(str)
    IN  IF r = <<>> THEN r
        ELSE LET k == CHOOSE k \in DOMAIN r :
                         r[k] \notin Whitespace
                             /\ \A j \in 1 .. (k - 1) : r[j] \in Whitespace
             IN  SubSeq(r, k, Len(r))

IdleKey ==
    /\ key_pc = "idle"
    /\ access_key_file = <<>>
    /\ access_token = Unbound
    /\ new_access_token = Unbound
    /\ fb_ads_access_token = Unbound
    /\ api_access_token = Unbound
    /\ tokens_used = {}

\* lines 111-128: the file is read and the exchange request is sent.  When
\* the file cannot be read the error is logged, access_token is unbound when
\* BASE_URL is built, and __main__ logs the exception and completes.
ReadAccessKey ==
    /\ key_pc = "retrieve"
    /\ \E readable \in BOOLEAN :
          IF readable
             THEN /\ access_token' = strip(access_key_file)
                  /\ key_pc' = "requested"
             ELSE /\ access_token' = access_token
                  /\ key_pc' = "complete"
    /\ UNCHANGED <<access_key_file, new_access_token, fb_ads_access_token,
                   api_access_token, tokens_used>>
    /\ UNCHANGED <<collVars, bqVars, archVars, dataVars>>

\* lines 128-148: the answer to the exchange request.  On status 200 the
\* token issued is written to the file and the function returns to
\* __main__; on any other status the script exits.
Exchange ==
    /\ key_pc = "requested"
    /\ \E status_code \in {200, 400}, issued \in Tokens :
          IF status_code = 200
             THEN /\ new_access_token' = issued
                  /\ access_key_file' = new_access_token'
                  /\ fb_ads_access_token' = access_token
                  /\ key_pc' = "make_requests"
             ELSE /\ key_pc' = "exited"
                  /\ UNCHANGED <<new_access_token, access_key_file,
                                 fb_ads_access_token>>
    /\ UNCHANGED <<access_token, api_access_token, tokens_used>>
    /\ UNCHANGED <<collVars, bqVars, archVars, dataVars>>

\* make_requests(temp_data_dir, fb_ads_access_token, ...)
MakeRequests ==
    /\ key_pc = "make_requests"
    /\ api_access_token' = fb_ads_access_token
    /\ tokens_used' = tokens_used \cup {api_access_token'}
    /\ key_pc' = "complete"
    /\ UNCHANGED <<access_key_file, access_token, new_access_token,
                   fb_ads_access_token>>
    /\ UNCHANGED <<collVars, bqVars, archVars, dataVars>>

\* the run of the next day: a new process, the same file
NextDayRun ==
    /\ key_pc \in {"complete", "exited"}
    /\ key_pc' = "retrieve"
    /\ access_token' = Unbound
    /\ new_access_token' = Unbound
    /\ fb_ads_access_token' = Unbound
    /\ api_access_token' = Unbound
    /\ UNCHANGED <<access_key_file, tokens_used>>
    /\ UNCHANGED <<collVars, bqVars, archVars, dataVars>>

NextKey ==
    \/ ReadAccessKey
    \/ Exchange
    \/ MakeRequests
    \/ NextDayRun

(***************************************************************************)
(* JSON values and Python values.  A value carries its Python type:        *)
(* dictionaries are functions from keys (strings) to values, lists are     *)
(* sequences of values.                                                    *)
(***************************************************************************)
JNone == [t |-> "NoneType", v |-> 0]

JInt(n) == [t |-> "int", v |-> n]

JStr(str) == [t |-> "str", v |-> str]

JList(seq) == [t |-> "list", v |-> seq]

JDict(fn) == [t |-> "dict", v |-> fn]

EmptyDict == [k \in {} |-> JNone]

\* how a call ends
Return(value) == [kind |-> "return", value |-> value]

Raise(exception) ==
    [kind |-> "raise", value |-> [t |-> "exception", v |-> exception]]

NoCall == [method |-> "none"]

(***************************************************************************)
(* midterm/utils.py: get_dict_val                                          *)
(***************************************************************************)
\* the loop over key_list, from the value reached so far
RECURSIVE dict_val_loop(_, _)
dict_val_loop(retval, key_list) ==
    IF key_list = <<>> THEN retval
    ELSE IF retval.t # "dict" THEN JNone
    ELSE IF Head(key_list) \in DOMAIN retval.v
            THEN dict_val_loop(retval.v[Head(key_list)], Tail(key_list))
            ELSE JNone

\* a loop that stops at a missing key and keeps the value reached so far
RECURSIVE dict_val_loop_KeepLast(_, _)
dict_val_loop_KeepLast(retval, key_list) ==
    IF key_list = <<>> THEN retval
    ELSE IF retval.t # "dict" THEN JNone
    ELSE IF Head(key_list) \in DOMAIN retval.v
            THEN dict_val_loop_KeepLast(retval.v[Head(key_list)], Tail(key_list))
            ELSE retval

get_dict_val_KeepLast(dictionary, key_list) ==
    IF dictionary.t # "dict" THEN Raise("TypeError")
    ELSE IF key_list.t # "list" THEN Raise("TypeError")
    ELSE Return(dict_val_loop_KeepLast(dictionary, key_list.v))

get_dict_val(dictionary, key_list) ==
    IF dictionary.t # "dict" THEN Raise("TypeError")
    ELSE IF key_list.t # "list" THEN Raise("TypeError")
    ELSE Return(dict_val_loop(dictionary, key_list.v))

\* PostBase.get_value
get_value(self_post_object, key_list) == get_dict_val(self_post_object, key_list)

(***************************************************************************)
(* The dictionaries and key lists get_dict_val is tried on.                *)
(***************************************************************************)
RECURSIVE NestedDicts(_)
NestedDicts(n) ==
    LET Leaves == {JNone, JInt(1), JList(<<>>)}
    IN  IF n = 0 THEN {JDict(EmptyDict)}
        ELSE LET below == Leaves \cup NestedDicts(n - 1)
             IN  {JDict(EmptyDict)}
                 \cup {JDict([a |-> va]) : va \in below}
                 \cup {JDict([a |-> va, b |-> vb]) : va \in below, vb \in Leaves}

KeyLists ==
    {JList(ks) : ks \in UNION {[1 .. n -> {"a", "b"}] : n \in 0 .. MaxKeys}}
        \cup {JStr(<<"a">>)}

IdleData ==
    /\ cls = "none"
    /\ post_object = JNone
    /\ call = NoCall
    /\ called_on = JNone
    /\ ret = Return(JNone)

\* PostBase(post_object): any value but None is bound
InitDict ==
    /\ cls = "PostBase"
    /\ post_object \in NestedDicts(MaxNest) \cup {JInt(1), JList(<<>>)}
    /\ call = NoCall
    /\ called_on = post_object
    /\ ret = Return(JNone)

\* self.get_value(key_list)
CallGetValue ==
    /\ \E key_list \in KeyLists :
          /\ call' = [method |-> "get_value", key_list |-> key_list]
          /\ ret' = get_value(post_object, key_list)
    /\ called_on' = post_object
    /\ UNCHANGED <<cls, post_object>>
    /\ UNCHANGED notDataVars

(***************************************************************************)
(* Python strings are sequences of atoms: single characters, and the units *)
(* the code looks for ("twitter.com", a domain name, a run of digits).     *)
(* Date strings are the day/second records of strptime above.              *)
(***************************************************************************)
IsNone(value) == value.t = "NoneType"

\* str(x) of an int or a str
py_str(value) ==
    IF value.t = "int" THEN JStr(<<ToString(value.v)>>) ELSE value

\* text.split(): split on whitespace, no empty parts
split_ws(text) == SelectSeq(split(text, " "), LAMBDA part : part # <<>>)

\* the domain names urlextract recognises in the texts of the model
Domains == {"x.org", "twitter.com"}

\* URLExtract().gen_urls(text): the whitespace-separated parts holding a
\* domain name
gen_urls(text) ==
    LET parts == SelectSeq(split_ws(text),
                           LAMBDA part : Range(part) \cap Domains # {})
    IN  [x \in DOMAIN parts |-> JStr(parts[x])]

\* PostBase.extract_hashtag_from_string, over the parts of text.split()
RECURSIVE extract_hashtag_from_parts(_)
extract_hashtag_from_parts(parts) ==
    IF parts = <<>> THEN <<>>
    ELSE LET part == Head(parts)
             hashtag_text == Tail(part)
             found ==
                 IF part[1] # "#" THEN <<>>
                 ELSE IF "#" \in Range(hashtag_text)
                         THEN SelectSeq(split(hashtag_text, "#"),
                                        LAMBDA tag : tag # <<>>)
                         ELSE <<hashtag_text>>
         IN  [x \in DOMAIN found |-> JStr(found[x])]
                 \o extract_hashtag_from_parts(Tail(parts))

extract_hashtag_from_string(text) ==
    JList(extract_hashtag_from_parts(split_ws(text)))

\* " ".join(values) over str values
join_values(values) ==
    JStr(join(<<" ">>, [x \in DOMAIN values |-> values[x].v]))

(***************************************************************************)
(* midterm/data.py: Tweet                                                  *)
(***************************************************************************)
is_quote(self) == "quoted_status" \in DOMAIN self.v

is_retweet(self) == "retweeted_status" \in DOMAIN self.v

is_extended(self) == "extended_tweet" \in DOMAIN self.v

quote_object(self) == self.v["quoted_status"]

retweet_object(self) == self.v["retweeted_status"]

extended_object(self) == self.v["extended_tweet"]

\* the naive datetime is read in local time: utcoffset is the local UTC
\* offset of the machine, in seconds
Tweet_get_timestamp(self, utcoffset) ==
    LET created_at == get_value(self, JList(<<"created_at">>)).value
    IN  IF created_at.t # "str" THEN Raise("TypeError")
        ELSE Return(JInt(strptime(created_at.v) - utcoffset))

Tweet_get_post_ID(self) == get_value(self, JList(<<"id_str">>))

Tweet_get_user_ID(self) == get_value(self, JList(<<"user", "id_str">>))

Tweet_get_text(self) ==
    IF is_extended(self)
       THEN get_value(extended_object(self), JList(<<"full_text">>))
       ELSE get_value(self, JList(<<"text">>))

\* the body of "for item in url_objects"
url_of_item(item) ==
    LET expanded_url == get_dict_val(item, JList(<<"expanded_url">>)).value
    IN  IF ~IsNone(expanded_url) /\ "twitter.com" \notin Range(expanded_url.v)
           THEN expanded_url
           ELSE get_dict_val(item, JList(<<"url">>)).value

\* the URLs of the tweet itself, lines 354-367
own_URLs(self) ==
    LET url_objects ==
            IF is_extended(self)
               THEN get_value(extended_object(self),
                              JList(<<"entities", "urls">>)).value
               ELSE get_value(self, JList(<<"entities", "urls">>)).value
    IN  IF IsNone(url_objects) THEN <<>>
        ELSE [x \in DOMAIN url_objects.v |-> url_of_item(url_objects.v[x])]

\* the embedded objects are asked with the default recursive=False
RECURSIVE Tweet_get_URLs(_, _)
Tweet_get_URLs(self, recursive) ==
    LET urls == own_URLs(self)
        of_retweet ==
            IF recursive /\ is_retweet(self)
               THEN Tweet_get_URLs(retweet_object(self), FALSE).value.v
               ELSE <<>>
        of_quote ==
            IF recursive /\ is_quote(self)
               THEN Tweet_get_URLs(quote_object(self), FALSE).value.v
               ELSE <<>>
    IN  Return(JList(urls \o of_retweet \o of_quote))

\* hashtags is bound only when raw_hashtags is not None
RECURSIVE Tweet_get_hashtags(_, _)
Tweet_get_hashtags(self, recursive) ==
    LET raw_hashtags ==
            IF is_extended(self)
               THEN get_value(extended_object(self),
                              JList(<<"entities", "hashtags">>)).value
               ELSE get_value(self, JList(<<"entities", "hashtags">>)).value
        hashtags == [x \in DOMAIN raw_hashtags.v |-> raw_hashtags.v[x].v["text"]]
        of_retweet ==
            IF recursive /\ is_retweet(self)
               THEN Tweet_get_hashtags(retweet_object(self), FALSE)
               ELSE Return(JList(<<>>))
        of_quote ==
            IF recursive /\ is_quote(self)
               THEN Tweet_get_hashtags(quote_object(self), FALSE)
               ELSE Return(JList(<<>>))
    IN  IF IsNone(raw_hashtags) THEN Raise("UnboundLocalError")
        ELSE IF of_retweet.kind = "raise" THEN of_retweet
        ELSE IF of_quote.kind = "raise" THEN of_quote
        ELSE Return(JList(hashtags \o of_retweet.value.v \o of_quote.value.v))

RECURSIVE Tweet_get_media(_, _)
Tweet_get_media(self, recursive) ==
    LET media_list ==
            IF is_extended(self)
               THEN get_value(extended_object(self),
                              JList(<<"extended_entities", "media">>)).value
               ELSE get_value(self, JList(<<"extended_entities", "media">>)).value
        media ==
            IF IsNone(media_list) THEN <<>>
            ELSE [x \in DOMAIN media_list.v |->
                     JDict([media_url |-> media_list.v[x].v["media_url"],
                            media_type |-> media_list.v[x].v["type"]])]
        of_retweet ==
            IF recursive /\ is_retweet(self)
               THEN Tweet_get_media(retweet_object(self), FALSE).value.v
               ELSE <<>>
        of_quote ==
            IF recursive /\ is_quote(self)
               THEN Tweet_get_media(quote_object(self), FALSE).value.v
               ELSE <<>>
    IN  Return(JList(media \o of_retweet \o of_quote))

(***************************************************************************)
(* midterm/data.py: FbIgPost                                               *)
(***************************************************************************)
\* "return None if the value is None, else str(value)"
str_or_None(found) ==
    IF IsNone(found.value) THEN Return(JNone) ELSE Return(py_str(found.value))

FbIgPost_get_post_ID(self) == str_or_None(get_value(self, JList(<<"id">>)))

FbIgPost_get_user_ID(self) ==
    str_or_None(get_value(self, JList(<<"account", "id">>)))

\* int(strptime(date).replace(tzinfo=timezone.utc).timestamp())
convert_to_timestamp(date) == JInt(strptime(date.v))

FbIgPost_get_timestamp(self) ==
    LET date == get_value(self, JList(<<"date">>)).value
    IN  IF ~IsNone(date) THEN Return(convert_to_timestamp(date))
        ELSE Return(JNone)

\* the values of the text fields that are present, in the order of fields
RECURSIVE text_obj_values(_, _)
text_obj_values(self, fields) ==
    IF fields = <<>> THEN <<>>
    ELSE LET temp_text == get_value(self, JList(<<Head(fields)>>)).value
         IN  (IF ~IsNone(temp_text) THEN <<temp_text>> ELSE <<>>)
                 \o text_obj_values(self, Tail(fields))

FbIgPost_get_text(self) ==
    Return(join_values(text_obj_values(
        self, <<"message", "title", "description", "imageText">>)))

FbIgPost_get_hashtags(self) ==
    Return(extract_hashtag_from_string(FbIgPost_get_text(self).value.v))

FbIgPost_get_URLs(self) ==
    LET expandedUrls == get_value(self, JList(<<"expandedLinks">>)).value
    IN  IF ~IsNone(expandedUrls)
           THEN Return(JList([x \in DOMAIN expandedUrls.v |->
                                 expandedUrls.v[x].v["expanded"]]))
           ELSE Return(JList(<<>>))

FbIgPost_get_media(self) ==
    LET media_list == get_value(self, JList(<<"media">>)).value
        media_obj(item) ==
            LET obj == [media_url |-> item.v["url"], media_type |-> item.v["type"]]
            IN  IF "full" \in DOMAIN item.v
                   THEN JDict(obj @@ ("media_full_url" :> item.v["full"]))
                   ELSE JDict(obj)
    IN  IF ~IsNone(media_list)
           THEN Return(JList([x \in DOMAIN media_list.v |->
                                 media_obj(media_list.v[x])]))
           ELSE Return(JList(<<>>))

(***************************************************************************)
(* midterm/data.py: RedditPost, RedditSubmission, RedditComment            *)
(***************************************************************************)
RedditPost_get_post_ID(self) == str_or_None(get_value(self, JList(<<"id">>)))

RedditPost_get_user_ID(self) ==
    str_or_None(get_value(self, JList(<<"author_fullname">>)))

\* " ".join() of a None raises TypeError
RedditSubmission_get_text(self) ==
    LET title == get_value(self, JList(<<"title">>)).value
        message == get_value(self, JList(<<"selftext">>)).value
    IN  IF IsNone(title) \/ IsNone(message) THEN Raise("TypeError")
        ELSE Return(join_values(<<title, message>>))

RedditComment_get_text(self) ==
    LET text == get_value(self, JList(<<"body">>)).value
    IN  IF IsNone(text) THEN Return(JStr(<<>>)) ELSE Return(text)

\* list(URLExtract().gen_urls(self.get_text())), get_text of the subclass
RedditPost_get_URLs(self, text) ==
    IF text.kind = "raise" THEN text
    ELSE Return(JList(gen_urls(text.value.v)))

(***************************************************************************)
(* midterm/data.py: FourChanThread                                         *)
(***************************************************************************)
is_reply(self) == get_value(self, JList(<<"resto">>)).value # JInt(0)

FourChanThread_get_post_ID(self) == str_or_None(get_value(self, JList(<<"no">>)))

FourChanThread_get_user_ID(self) ==
    str_or_None(get_value(self, JList(<<"name">>)))

FourChanThread_get_text(self) ==
    IF is_reply(self)
       THEN LET text == get_value(self, JList(<<"com">>)).value
            IN  IF IsNone(text) THEN Return(JStr(<<>>)) ELSE Return(text)
       ELSE Return(join_values(text_obj_values(self, <<"sub", "com">>)))

FourChanThread_get_URLs(self) ==
    Return(JList(gen_urls(FourChanThread_get_text(self).value.v)))

FourChanThread_get_media(self) ==
    LET tim == get_value(self, JList(<<"tim">>)).value
        ext == get_value(self, JList(<<"ext">>)).value
    IN  IF ~IsNone(tim) /\ ~IsNone(ext)
           THEN Return(JList(<<JDict([
                    media_url |-> JStr(<<"https://i.4cdn.org/pol/">>
                                         \o py_str(tim).v \o py_str(ext).v),
                    media_type |-> JStr(<<"photo">>)])>>))
           ELSE Return(JList(<<>>))

(***************************************************************************)
(* The class hierarchy and the lookup of a method along it.                *)
(***************************************************************************)
Accessors ==
    {"get_text", "get_URLs", "get_hashtags", "get_media", "get_post_ID",
     "get_user_ID", "get_timestamp"}

\* the accessors each class body defines
Defines(class) ==
    CASE class = "PostBase" -> Accessors
      [] class = "Tweet" -> Accessors
      [] class = "FbIgPost" -> Accessors
      [] class = "RedditPost" -> {"get_post_ID", "get_user_ID", "get_URLs"}
      [] class = "RedditSubmission" -> {"get_text"}
      [] class = "RedditComment" -> {"get_text"}
      [] class = "FourChanThread" ->
             {"get_post_ID", "get_user_ID", "get_URLs", "get_text", "get_media"}

\* class X(Base)
Base(class) ==
    CASE class \in {"RedditSubmission", "RedditComment"} -> "RedditPost"
      [] OTHER -> "PostBase"

\* the class whose definition of the method an object of the class runs
RECURSIVE Resolve(_, _)
Resolve(class, method) ==
    IF method \in Defines(class) THEN class ELSE Resolve(Base(class), method)

\* obj.method(...) on an object of the class holding the payload self
Invoke(class, method, self, recursive, utcoffset) ==
    LET owner == Resolve(class, method)
    IN  CASE owner = "PostBase" -> Raise("NotImplementedError")
          [] owner = "Tweet" ->
               (CASE method = "get_text" -> Tweet_get_text(self)
                  [] method = "get_URLs" -> Tweet_get_URLs(self, recursive)
                  [] method = "get_hashtags" -> Tweet_get_hashtags(self, recursive)
                  [] method = "get_media" -> Tweet_get_media(self, recursive)
                  [] method = "get_post_ID" -> Tweet_get_post_ID(self)
                  [] method = "get_user_ID" -> Tweet_get_user_ID(self)
                  [] method = "get_timestamp" -> Tweet_get_timestamp(self, utcoffset))
          [] owner = "FbIgPost" ->
               (CASE method = "get_text" -> FbIgPost_get_text(self)
                  [] method = "get_URLs" -> FbIgPost_get_URLs(self)
                  [] method = "get_hashtags" -> FbIgPost_get_hashtags(self)
                  [] method = "get_media" -> FbIgPost_get_media(self)
                  [] method = "get_post_ID" -> FbIgPost_get_post_ID(self)
                  [] method = "get_user_ID" -> FbIgPost_get_user_ID(self)
                  [] method = "get_timestamp" -> FbIgPost_get_timestamp(self))
          [] owner = "RedditPost" ->
               (CASE method = "get_post_ID" -> RedditPost_get_post_ID(self)
                  [] method = "get_user_ID" -> RedditPost_get_user_ID(self)
                  [] method = "get_URLs" ->
                       RedditPost_get_URLs(self,
                           IF class = "RedditSubmission"
                              THEN RedditSubmission_get_text(self)
                              ELSE RedditComment_get_text(self)))
          [] owner = "RedditSubmission" -> RedditSubmission_get_text(self)
          [] owner = "RedditComment" -> RedditComment_get_text(self)
          [] owner = "FourChanThread" ->
               (CASE method = "get_text" -> FourChanThread_get_text(self)
                  [] method = "get_URLs" -> FourChanThread_get_URLs(self)
                  [] method = "get_media" -> FourChanThread_get_media(self)
                  [] method = "get_post_ID" -> FourChanThread_get_post_ID(self)
                  [] method = "get_user_ID" -> FourChanThread_get_user_ID(self))

(***************************************************************************)
(* The payloads the objects are built from.                                *)
(***************************************************************************)
\* a field that a payload may lack
Absent == [t |-> "absent", v |-> 0]

Opt(key, value) == IF value.t = "absent" THEN EmptyDict ELSE key :> value

Texts == {<<"a">>, <<"#", "a", "#", "b", " ", "x.org", "/", "a">>}

\* the tweets at embedding level n that embed at most d levels more: a
\* plain tweet, a retweet, a quote, and a retweet of a quote that repeats
\* the quoted tweet at its top level.  An embedded tweet is no retweet.
\* A tweet has no entities, or a link, a hashtag and a photo, or only a link
\* to a tweet; it may have an extended_tweet with entities of its own.
RECURSIVE Tweets(_, _)
Tweets(n, d) ==
    LET name == ToString(n)
        url_item(id, domain) ==
            JDict([url |-> JStr(<<"t.co", "/", id, domain>>),
                   expanded_url |-> JStr(<<domain, "/", id>>)])
        hashtag_item(id) == JDict([text |-> JStr(<<"h", id>>)])
        media_item == JDict([media_url |-> JStr(<<"pbs", "/", name>>),
                             type |-> JStr(<<"photo">>)])
        base ==
            [id_str |-> JStr(<<name>>),
             user |-> JDict([id_str |-> JStr(<<"u", name>>),
                             screen_name |-> JStr(<<"s", name>>)]),
             text |-> JStr(<<"a">>),
             created_at |-> JStr([day |-> 0, sec |-> 1])]
        entities ==
            {EmptyDict,
             [entities |-> JDict([urls |-> JList(<<url_item(name, "x.org")>>),
                                  hashtags |-> JList(<<hashtag_item(name)>>)]),
              extended_entities |-> JDict([media |-> JList(<<media_item>>)])],
             [entities |-> JDict([urls |-> JList(<<url_item(name, "twitter.com")>>),
                                  hashtags |-> JList(<<>>)])]}
        extended ==
            {Absent,
             JDict([full_text |-> JStr(<<"a", " ", "x.org", "/", name, "e">>),
                    entities |->
                        JDict([urls |-> JList(<<url_item(name \o "e", "x.org")>>),
                               hashtags |-> JList(<<hashtag_item(name \o "e")>>)])])}
        embedded ==
            IF d = 0 THEN {}
            ELSE {tw \in Tweets(n + 1, d - 1) : ~is_retweet(tw)}
        embeds ==
            {EmptyDict}
                \cup {[retweeted_status |-> tw] : tw \in embedded}
                \cup {[quoted_status |-> tw] : tw \in embedded}
                \cup {[retweeted_status |-> tw, quoted_status |-> quote_object(tw)] :
                         tw \in {e \in embedded : is_quote(e)}}
    IN  {JDict(base @@ e @@ Opt("extended_tweet", x) @@ m) :
            e \in entities, x \in extended, m \in embeds}

FbIgPosts ==
    {JDict([id |-> JInt(7), account |-> JDict([id |-> JInt(8)]),
            date |-> JStr([day |-> 0, sec |-> 1])]
           @@ Opt("message", message) @@ Opt("description", description)
           @@ Opt("expandedLinks", links) @@ Opt("media", media)) :
        message \in {Absent} \cup {JStr(text) : text \in Texts},
        description \in {Absent, JStr(<<"b">>)},
        links \in {Absent,
                   JList(<<JDict([original |-> JStr(<<"t.co", "/", "f">>),
                                  expanded |-> JStr(<<"x.org", "/", "f">>)])>>)},
        media \in {Absent,
                   JList(<<JDict([url |-> JStr(<<"fb", "/", "m">>),
                                  type |-> JStr(<<"photo">>)])>>),
                   JList(<<JDict([url |-> JStr(<<"fb", "/", "m">>),
                                  type |-> JStr(<<"photo">>),
                                  full |-> JStr(<<"fb", "/", "full">>)])>>)}}

RedditSubmissions ==
    {JDict([id |-> JStr(<<"r1">>), author_fullname |-> JStr(<<"t2_a">>),
            created_utc |-> JInt(1), title |-> JStr(title),
            selftext |-> JStr(selftext)]) :
        title \in Texts, selftext \in Texts \cup {<<>>}}

RedditComments ==
    {JDict([id |-> JStr(<<"r2">>), author_fullname |-> JStr(<<"t2_a">>),
            created_utc |-> JInt(1), body |-> JStr(body)]) :
        body \in Texts \cup {<<>>}}

FourChanThreads ==
    {JDict([no |-> JInt(5), resto |-> JInt(resto), time |-> JInt(1),
            name |-> JStr(<<"Anonymous">>)]
           @@ Opt("sub", sub) @@ Opt("com", com) @@ image) :
        resto \in {0, 4},
        sub \in {Absent, JStr(<<"b">>)},
        com \in {Absent} \cup {JStr(text) : text \in Texts},
        image \in {EmptyDict, [tim |-> JInt(9), ext |-> JStr(<<".jpg">>)]}}

Payloads(class) ==
    CASE class = "Tweet" -> Tweets(0, MaxEmbed)
      [] class = "FbIgPost" -> FbIgPosts
      [] class = "RedditSubmission" -> RedditSubmissions
      [] class = "RedditComment" -> RedditComments
      [] class = "FourChanThread" -> FourChanThreads

\* an object of a platform class built from a payload of the platform
InitData ==
    /\ cls \in {"Tweet", "FbIgPost", "RedditSubmission", "RedditComment",
               "FourChanThread"}
    /\ post_object \in Payloads(cls)
    /\ call = NoCall
    /\ called_on = post_object
    /\ ret = Return(JNone)

\* obj.method(...): the call and how it ends; three methods of Tweet take
\* recursive
Called(method, utcoffset) ==
    LET RecursiveArgs ==
            IF cls = "Tweet" /\ method \in {"get_URLs", "get_hashtags", "get_media"}
               THEN BOOLEAN ELSE {FALSE}
    IN  \E recursive \in RecursiveArgs :
            /\ call' = [method |-> method, recursive |-> recursive]
            /\ ret' = Invoke(cls, method, post_object, recursive, utcoffset)
            /\ called_on' = post_object

CallGetText ==
    /\ Called("get_text", 0)
    /\ UNCHANGED <<cls, post_object>>
    /\ UNCHANGED notDataVars

CallGetURLs ==
    /\ Called("get_URLs", 0)
    /\ UNCHANGED <<cls, post_object>>
    /\ UNCHANGED notDataVars

CallGetHashtags ==
    /\ Called("get_hashtags", 0)
    /\ UNCHANGED <<cls, post_object>>
    /\ UNCHANGED notDataVars

CallGetMedia ==
    /\ Called("get_media", 0)
    /\ UNCHANGED <<cls, post_object>>
    /\ UNCHANGED notDataVars

CallGetPostID ==
    /\ Called("get_post_ID", 0)
    /\ UNCHANGED <<cls, post_object>>
    /\ UNCHANGED notDataVars

CallGetUserID ==
    /\ Called("get_user_ID", 0)
    /\ UNCHANGED <<cls, post_object>>
    /\ UNCHANGED notDataVars

CallGetTimestamp ==
    /\ \E utcoffset \in {0, 1} : Called("get_timestamp", utcoffset)
    /\ UNCHANGED <<cls, post_object>>
    /\ UNCHANGED notDataVars

NextData ==
    \/ CallGetText
    \/ CallGetURLs
    \/ CallGetHashtags
    \/ CallGetMedia
    \/ CallGetPostID
    \/ CallGetUserID
    \/ CallGetTimestamp

(***************************************************************************)
(* The specifications.                                                     *)
(***************************************************************************)
Init == InitColl /\ IdleBq /\ IdleArch /\ IdleData /\ IdleKey

Next ==
    \/ StartCrowdtangleSearch
    \/ CtRequestFails
    \/ CtZeroPosts
    \/ CtPage
    \/ StartPushshiftSearch
    \/ PsRequestFails
    \/ PsZeroPosts
    \/ PsPage
    \/ StartCandidateListPosts
    \/ CandRequestFails
    \/ CandZeroPosts
    \/ CandPage

Spec == Init /\ [][Next]_vars

InitQuery == IdleColl /\ InitBq /\ IdleArch /\ IdleData /\ IdleKey

SpecQuery == InitQuery /\ [][NextBq]_vars

InitArchive == IdleColl /\ IdleBq /\ InitArch /\ IdleData /\ IdleKey

SpecArchive == InitArchive /\ [][NextArch]_vars

InitDictSpec == IdleColl /\ IdleBq /\ IdleArch /\ InitDict /\ IdleKey

SpecDict == InitDictSpec /\ [][CallGetValue]_vars

InitDataSpec == IdleColl /\ IdleBq /\ IdleArch /\ InitData /\ IdleKey

SpecData == InitDataSpec /\ [][NextData]_vars

\* the script is about to call retrieve_new_access_key; the file holds a
\* token, with or without a newline after it
InitKeySpec ==
    /\ IdleColl /\ IdleBq /\ IdleArch /\ IdleData
    /\ key_pc = "retrieve"
    /\ access_key_file \in {tk \o nl : tk \in Tokens, nl \in {<<>>, <<"\n">>}}
    /\ access_token = Unbound
    /\ new_access_token = Unbound
    /\ fb_ads_access_token = Unbound
    /\ api_access_token = Unbound
    /\ tokens_used = {}

SpecKey == InitKeySpec /\ [][NextKey]_vars

(***************************************************************************)
(* Claims about the collection loops.                                      *)
(***************************************************************************)
\* the posts dated in the requested day
PostsOfDay ==
    {p \in PostIds : /\ combine(start_dt) <= posts_db[p]
                     /\ posts_db[p] < combine(start_dt + 1)}

Written(s) == {f[s][x].id : x \in DOMAIN f[s]}

C9_AllPostsOfDayWritten ==
    (/\ script = "crowdtangle_search"
     /\ pc = "done"
     /\ ~failed
     /\ query_count < CT_MAX_QUERIES)
        => PostsOfDay \subseteq Written("crowdtangle_search")

\* C10: while crowdtangle_search loops, the end of the next query is strictly
\* earlier than the date of every post written; while pushshift_search loops,
\* utc_start is strictly later than created_utc of every post written; and
\* neither output file holds a post twice.
C10_NoPostPulledTwice ==
    /\ (script = "crowdtangle_search" /\ pc = "loop") =>
          \A x \in DOMAIN f["crowdtangle_search"] :
              strptime(end) < strptime(f["crowdtangle_search"][x].date)
    /\ (script = "pushshift_search" /\ pc = "loop") =>
          \A x \in DOMAIN f["pushshift_search"] :
              f["pushshift_search"][x].created_utc < utc_start
    /\ \A s \in {"crowdtangle_search", "pushshift_search"} :
          \A x, j \in DOMAIN f[s] : x # j => f[s][x].id # f[s][j].id

\* both scripts have written a second page, queried with the moved window
C10_Witness ==
    /\ Len(f["crowdtangle_search"]) > NUMBER_OF_POSTS_TO_PULL
    /\ Len(f["pushshift_search"]) > NUMBER_OF_POSTS_TO_PULL

(***************************************************************************)
(* Claims about build_query_strings.                                       *)
(***************************************************************************)
RECURSIVE Flatten(_)
Flatten(ss) == IF ss = <<>> THEN <<>> ELSE ss[1] \o Flatten(Tail(ss))

\* C6: the query strings returned, split on "," and concatenated in order,
\* are exactly the keywords of the file.
C6_QueryStringsPartitionKeywords ==
    bq_pc = "done" =>
        Flatten([k \in DOMAIN query_list |-> split(query_list[k], ",")])
            = [k \in DOMAIN keywords_file |-> rstrip(keywords_file[k])]

\* C7: no query string returned is longer than max_len characters.
C7_QueryStringsWithinMaxLen ==
    bq_pc = "done" => \A k \in DOMAIN query_list : Len(query_list[k]) <= max_len

(***************************************************************************)
(* Claims about download_archived_threads_4chan.                           *)
(***************************************************************************)
\* C8: in each run that follows an earlier run, every id of the list fetched
\* by this run that was not in the list fetched by the most recent earlier
\* run is requested from the thread endpoint, and the JSON of every request
\* that succeeds is appended as one line to the day's archived-threads file.
C8_NewlyArchivedThreadsDownloaded ==
    (last_run.ran /\ last_run.follows) =>
        /\ (last_run.fetched \ last_run.earlier) \subseteq last_run.requested
        /\ \A t \in last_run.succeeded :
              Cardinality({k \in DOMAIN last_run.appended :
                              last_run.appended[k] = fetch_thread(t)}) = 1
        /\ \E pre \in DOMAIN archive_thread_file[today] \cup {0} :
              archive_thread_file[today]
                  = SubSeq(archive_thread_file[today], 1, pre) \o last_run.appended

(***************************************************************************)
(* Claims about get_dict_val.                                              *)
(***************************************************************************)
\* the value at the end of a path of keys, read from the last key backwards
RECURSIVE ValueAt(_, _)
ValueAt(d, ks) ==
    IF ks = <<>> THEN d
    ELSE ValueAt(d, SubSeq(ks, 1, Len(ks) - 1)).v[ks[Len(ks)]]

\* every key of the path exists: each prefix ends in a dict holding the next key
PathExists(d, ks) ==
    \A n \in 1 .. Len(ks) :
        LET at == ValueAt(d, SubSeq(ks, 1, n - 1))
        IN  at.t = "dict" /\ ks[n] \in DOMAIN at.v

\* C4: get_value(key_list) = get_dict_val(post_object, key_list) returns the
\* value at the end of the path when every key on it exists, None when a key
\* is missing or a value before the end is no dict, the dictionary itself
\* for an empty key list, raises TypeError when the dictionary is no dict or
\* the key list no list, and leaves the dictionary as it was.
C4_GetDictVal ==
    call # NoCall =>
        /\ post_object = called_on
        /\ IF post_object.t # "dict" \/ call.key_list.t # "list"
              THEN ret = Raise("TypeError")
              ELSE /\ PathExists(post_object, call.key_list.v)
                        => ret = Return(ValueAt(post_object, call.key_list.v))
                   /\ ~PathExists(post_object, call.key_list.v)
                        => ret = Return(JNone)
                   /\ call.key_list.v = <<>> => ret = Return(post_object)

\* a path of three keys was followed to its end through nested dicts
C4_Witness ==
    /\ call # NoCall
    /\ post_object.t = "dict"
    /\ call.key_list.t = "list"
    /\ Len(call.key_list.v) = 3
    /\ PathExists(post_object, call.key_list.v)
    /\ ret = Return(JInt(1))

(***************************************************************************)
(* Claims about the platform classes.                                      *)
(***************************************************************************)
\* the tweets embedded in a tweet as retweeted_status or quoted_status, at
\* every depth
RECURSIVE Embedded(_)
Embedded(tweet) ==
    LET direct == (IF is_retweet(tweet) THEN {retweet_object(tweet)} ELSE {})
                      \cup (IF is_quote(tweet) THEN {quote_object(tweet)} ELSE {})
    IN  direct \cup UNION {Embedded(tw) : tw \in direct}

\* a payload as the platform delivers it: a tweet and every tweet embedded
\* in it carry entities with urls and hashtags
WellFormed ==
    cls = "Tweet" =>
        \A tw \in {post_object} \cup Embedded(post_object) :
            LET holder == IF is_extended(tw) THEN extended_object(tw) ELSE tw
            IN  /\ "entities" \in DOMAIN holder.v
                /\ {"urls", "hashtags"} \subseteq DOMAIN holder.v["entities"].v

\* C2: every accessor of the common interface, called on an object of any
\* platform class built from a well-formed payload, returns a value.
C2_EveryAccessorReturns ==
    (call.method \in Accessors /\ WellFormed) => ret.kind = "return"

\* C3: Tweet.get_URLs(recursive=True) returns the tweet's own URLs and the
\* URLs of every tweet embedded in it, at every depth.
C3_RecursiveURLsAtEveryDepth ==
    (cls = "Tweet" /\ call.method = "get_URLs" /\ call.recursive) =>
        /\ ret.kind = "return"
        /\ \A tw \in {post_object} \cup Embedded(post_object) :
               Range(own_URLs(tw)) \subseteq Range(ret.value.v)

\* C5: Tweet.get_hashtags returns a list for every tweet and both values of
\* recursive, also when the payload has no entities.hashtags.
C5_HashtagsReturnsAList ==
    (cls = "Tweet" /\ call.method = "get_hashtags") =>
        ret.kind = "return" /\ ret.value.t = "list"

(***************************************************************************)
(* Claims about the start of pushshift_search.                             *)
(***************************************************************************)
\* C11: started without -t/--content-type, pushshift_search does not stop
\* with an error; it runs its loop and what it writes comes from the
\* submissions endpoint.
C11_SubmissionByDefault ==
    (script = "pushshift_search" /\ content_type = "None") =>
        /\ pc # "raised"
        /\ \A x \in DOMAIN f["pushshift_search"] :
               f["pushshift_search"][x].url = "URL_SUBMISSIONS"

(***************************************************************************)
(* Claims about the access key.                                            *)
(***************************************************************************)
\* C12: when the exchange request answers 200, the token
\* retrieve_new_access_key returns, and make_requests then uses, is the
\* token newly issued, the one written to the access key file.
C12_ReturnsNewAccessKey ==
    /\ key_pc \in {"make_requests", "complete"} /\ new_access_token # Unbound
           => /\ fb_ads_access_token = new_access_token
              /\ fb_ads_access_token = access_key_file
    /\ key_pc = "complete" /\ new_access_token # Unbound
           => api_access_token = new_access_token
====
